---- MODULE Spec2Model ----
(***************************************************************************)
(* derive_pda.py: find_program_address (the bounded nonce search) and the  *)
(* command-line wrapper main.                                              *)
(*                                                                         *)
(* Text (str) is a sequence of Unicode code points, bytes a sequence of    *)
(* numbers in 0..255.  Sequences are 1-indexed: Python's h[31] is h[32].   *)
(***************************************************************************)
EXTENDS Integers, Sequences, FiniteSets, TLC

VARIABLES
    argv,        \* sys.argv of a run of main (<<>> when the function is called directly)
    caller,      \* "none" | "main" | "lib": who called find_program_address
    pc,          \* "idle" | "loop" | "returned" | "raised" | "exit"
    seeds,       \* find_program_address's argument seeds
    program_id,  \* find_program_address's argument program_id (text)
    nonce,       \* the loop variable
    seed_bytes,  \* the local seed_bytes
    hashed,      \* the bytes handed to hashlib.sha256 in the latest attempt
    h,           \* the local h
    tried,       \* history: <<nonce, last digest byte>> of every hash computed in this call
    outcome,     \* what the call gave: nothing yet, a returned pair, a raised ValueError
    stdout,      \* the lines main printed
    exc,         \* the exception that escaped main ("none" when none did)
    decodes,     \* history: how many times bytes.fromhex was called
    prev         \* history: the previous direct call (arguments, latest attempt, outcome)

vars == <<argv, caller, pc, seeds, program_id, nonce, seed_bytes, hashed, h,
          tried, outcome, stdout, exc, decodes, prev>>

----------------------------------------------------------------------------
(* Bounds of the inputs. *)

\* Seed bytes of a direct call are words over Alphabet of at most this length.
MaxWordLen == 2

\* A direct call passes at most this many seeds.
MaxSeeds == 2

Alphabet == {1, 2}

----------------------------------------------------------------------------
(* Library conversions. *)

IsSpace(c) == c \in {9, 10, 11, 12, 13, 32}

\* The value of a hexadecimal digit, 16 for any other character.
HexDigit(c) ==
    IF c \in 48..57 THEN c - 48
    ELSE IF c \in 97..102 THEN c - 87
    ELSE IF c \in 65..70 THEN c - 55
    ELSE 16

\* bytes.fromhex reads the text from left to right.  Between two bytes
\* ("gap") white space is skipped and a digit starts a byte; after the first
\* digit of a byte ("top") the very next character has to be its second
\* digit.  Any other character ends the scan ("bad") with the ValueError that
\* reports its 0-based position pos.
HexStart == [mode |-> "gap", top |-> 0, bytes |-> <<>>, pos |-> 0]

HexStep(st, c, i) ==
    IF st.mode = "gap" /\ IsSpace(c) THEN st
    ELSE IF HexDigit(c) >= 16 THEN [st EXCEPT !.mode = "bad", !.pos = i]
    ELSE IF st.mode = "gap" THEN [st EXCEPT !.mode = "top", !.top = HexDigit(c)]
    ELSE [st EXCEPT !.mode = "gap", !.bytes = Append(@, 16 * st.top + HexDigit(c))]

\* The scan of s[lo..hi] from state st, a half at a time.
RECURSIVE HexScan(_, _, _, _)
HexScan(s, lo, hi, st) ==
    IF st.mode = "bad" \/ lo > hi THEN st
    ELSE IF lo = hi THEN HexStep(st, s[lo], lo - 1)
    ELSE HexScan(s, (lo + hi) \div 2 + 1, hi, HexScan(s, lo, (lo + hi) \div 2, st))

\* At the end of the text a byte must not be half read (the terminating NUL is
\* no digit: the error is reported at position len).
HexEnd(st, len) ==
    IF st.mode = "gap" THEN [ok |-> TRUE, bytes |-> st.bytes, pos |-> 0]
    ELSE [ok |-> FALSE, bytes |-> <<>>, pos |-> IF st.mode = "top" THEN len ELSE st.pos]

FromHex(s) == HexEnd(HexScan(s, 1, Len(s), HexStart), Len(s))

HexChar(d) == IF d < 10 THEN 48 + d ELSE 87 + d

\* bytes.hex(): two lowercase digits a byte.
ToHex(b) ==
    [i \in 1..(2 * Len(b)) |->
        IF i % 2 = 1 THEN HexChar(b[(i + 1) \div 2] \div 16) ELSE HexChar(b[i \div 2] % 16)]

\* UTF-8 of one code point; a surrogate cannot be encoded.
Utf8Char(c) ==
    IF c < 128 THEN <<c>>
    ELSE IF c < 2048 THEN <<192 + (c \div 64), 128 + (c % 64)>>
    ELSE IF c < 65536
         THEN <<224 + (c \div 4096), 128 + ((c \div 64) % 64), 128 + (c % 64)>>
    ELSE <<240 + (c \div 262144), 128 + ((c \div 4096) % 64),
           128 + ((c \div 64) % 64), 128 + (c % 64)>>

IsSurrogate(c) == c \in 55296..57343

\* The UTF-8 of t[lo..hi].
RECURSIVE Utf8Range(_, _, _)
Utf8Range(t, lo, hi) ==
    IF lo > hi THEN <<>>
    ELSE IF lo = hi THEN Utf8Char(t[lo])
    ELSE Utf8Range(t, lo, (lo + hi) \div 2) \o Utf8Range(t, (lo + hi) \div 2 + 1, hi)

\* str.encode(): UnicodeEncodeError (ok is FALSE) when a surrogate is met.
Utf8Encode(t) ==
    IF \E i \in 1..Len(t) : IsSurrogate(t[i]) THEN [ok |-> FALSE, bytes |-> <<>>]
    ELSE [ok |-> TRUE, bytes |-> Utf8Range(t, 1, Len(t))]

\* "as" of Join: a separator byte is put between the seeds.
RECURSIVE Join_sep(_)
Join_sep(sds) ==
    IF sds = <<>> THEN <<>>
    ELSE IF Len(sds) = 1 THEN sds[1]
    ELSE sds[1] \o <<0>> \o Join_sep(Tail(sds))

\* b''.join(seeds)
RECURSIVE Join(_)
Join(sds) == IF sds = <<>> THEN <<>> ELSE sds[1] \o Join(Tail(sds))

\* hashlib.sha256(m).digest() is a library function the search treats as a
\* black box.  It is modelled by a 32-byte stand-in that is a function of
\* the message alone and depends on every byte and on its position: a
\* rolling checksum of the message, spread over the 32 bytes so that the last
\* byte is the checksum itself.
\* The checksum of m[lo..hi] continued from acc, a half at a time (acc is never
\* negative: the test has acc computed before the second half is entered, which
\* keeps the evaluation shallow).
RECURSIVE Checksum(_, _, _, _)
Checksum(m, lo, hi, acc) ==
    IF lo > hi \/ acc < 0 THEN acc
    ELSE IF lo = hi THEN (acc * 255 + m[lo] + 1) % 256
    ELSE Checksum(m, (lo + hi) \div 2 + 1, hi, Checksum(m, lo, (lo + hi) \div 2, acc))

sha256(m) == LET c == Checksum(m, 1, Len(m), 0) IN [k \in 1..32 |-> (c + 7 * (32 - k)) % 256]

----------------------------------------------------------------------------
(* find_program_address *)

\* "as" of NextNonce: a step of 2.
NextNonce_step2(n) == n + 2

\* "as" of max_nonce: one nonce more.
max_nonce_256 == 255 + 1

\* "as" of NonceByte: the nonce byte is always appended.
NonceByte_always(n) == <<n>>

\* "as" of IsValid: the byte before the last one is tested.
IsValid_byte30(d) == d[31] = 0

\* "as" of NonceByte: the nonce is packed as a 16-bit little-endian number.
NonceByte_u16(n) == IF n # 0 THEN <<n % 256, n \div 256>> ELSE <<>>

max_nonce == 255

\* range(max_nonce): the values 0, 1, ..., max_nonce - 1 in this order.
InRange(n) == n < max_nonce

NextNonce(n) == n + 1

\* the byte string the nonce adds to seed_bytes
NonceByte(n) == IF n # 0 THEN <<n>> ELSE <<>>

SeedBytes(sds, n) == Join(sds) \o NonceByte(n)

\* "as" of HashInput: the bytes are collected in a buffer that outlives the
\* call, so the bytes the previous call hashed last are still in front.
HashInput_leak(sb, pid) == prev.hashed \o sb \o pid

HashInput(sb, pid) == sb \o pid

IsValid(d) == d[32] = 0

\* h[:32].hex()
Address(d) == ToHex(SubSeq(d, 1, IF Len(d) < 32 THEN Len(d) ELSE 32))

NoOutcome == [kind |-> "none", address |-> <<>>, nonce |-> 0, msg |-> "", pos |-> 0]

Returned(a, n) == [kind |-> "return", address |-> a, nonce |-> n, msg |-> "", pos |-> 0]

Raised(m, p) == [kind |-> "raise", address |-> <<>>, nonce |-> 0, msg |-> m, pos |-> p]

FromHexMsg == "non-hexadecimal number found in fromhex() arg at position "

ExhaustedMsg == "Unable to find a valid program address"

NoCall == [seeds |-> <<>>, program_id |-> <<>>, nonce |-> 0, hashed |-> <<>>,
           outcome |-> NoOutcome]

\* Entry into find_program_address(sds, pid): a new frame.
Enter(sds, pid) ==
    /\ seeds' = sds
    /\ program_id' = pid
    /\ nonce' = 0
    /\ seed_bytes' = <<>>
    /\ hashed' = <<>>
    /\ h' = <<>>
    /\ tried' = <<>>
    /\ outcome' = NoOutcome
    /\ pc' = "loop"

\* One iteration of the for loop (lines 10-15).  (\E x \in {e} names the value
\* of e, computed once.)
Attempt ==
    /\ pc = "loop"
    /\ InRange(nonce)
    /\ \E sb \in {SeedBytes(seeds, nonce)}, pid \in {FromHex(program_id)} :
           /\ seed_bytes' = sb
           /\ decodes' = decodes + 1
           /\ IF ~pid.ok
              THEN /\ outcome' = Raised(FromHexMsg, pid.pos)
                   /\ pc' = "raised"
                   /\ UNCHANGED <<nonce, hashed, h, tried>>
              ELSE \E m \in {HashInput(sb, pid.bytes)} : \E d \in {sha256(m)} :
                       /\ hashed' = m
                       /\ h' = d
                       /\ tried' = Append(tried, <<nonce, d[32]>>)
                       /\ IF IsValid(d)
                          THEN /\ outcome' = Returned(Address(d), nonce)
                               /\ pc' = "returned"
                               /\ UNCHANGED nonce
                          ELSE /\ nonce' = NextNonce(nonce)
                               /\ UNCHANGED <<outcome, pc>>
    /\ UNCHANGED <<argv, caller, seeds, program_id, stdout, exc, prev>>

\* The range is used up: line 16.
Exhaust ==
    /\ pc = "loop"
    /\ ~InRange(nonce)
    /\ outcome' = Raised(ExhaustedMsg, 0)
    /\ pc' = "raised"
    /\ UNCHANGED <<argv, caller, seeds, program_id, nonce, seed_bytes, hashed, h,
                   tried, stdout, exc, decodes, prev>>

----------------------------------------------------------------------------
(* Inputs. *)

\* s * n
Rep(s, n) == [i \in 1..(n * Len(s)) |-> s[((i - 1) % Len(s)) + 1]]

\* "00" * 32: 32 zero bytes
PidZero == Rep(<<48, 48>>, 32)

\* "00" * 31 + "fd"
PidFD == Rep(<<48, 48>>, 31) \o <<102, 100>>

\* "00" * 31 + "FE"
PidFE == Rep(<<48, 48>>, 31) \o <<70, 69>>

\* "02": one byte
PidShort == <<48, 50>>

\* "000": an odd number of digits
PidOdd == <<48, 48, 48>>

\* "0g": not hexadecimal
PidNonHex == <<48, 103>>

ProgramIds == {PidZero, PidFD, PidFE, PidShort, PidOdd, PidNonHex}

\* The bytes of a list of seeds, one seed after the other.
RECURSIVE Concat(_)
Concat(sds) ==
    IF sds = <<>> THEN <<>>
    ELSE Concat(SubSeq(sds, 1, Len(sds) - 1)) \o sds[Len(sds)]

RECURSIVE WordsOfLen(_)
WordsOfLen(k) ==
    IF k = 0 THEN {<<>>}
    ELSE {Append(w, b) : w \in WordsOfLen(k - 1), b \in Alphabet}

Words == UNION {WordsOfLen(k) : k \in 0..MaxWordLen}

\* The lists of exactly k seeds whose concatenation is w.
RECURSIVE Splits(_, _)
Splits(w, k) ==
    IF k = 0 THEN (IF w = <<>> THEN {<<>>} ELSE {})
    ELSE UNION {{<<SubSeq(w, 1, i)>> \o r : r \in Splits(SubSeq(w, i + 1, Len(w)), k - 1)}
                : i \in 0..Len(w)}

Resplits(w) == UNION {Splits(w, k) : k \in 0..MaxSeeds}

SeedLists == UNION {Resplits(w) : w \in Words}

\* "./d"
ProgName == <<46, 47, 100>>

\* "", "metadata", "e" with an acute accent (U+00E9), a lone surrogate (U+DC80: an
\* undecodable byte of the command line)
Prefixes == {<<>>, <<109, 101, 116, 97, 100, 97, 116, 97>>, <<233>>, <<56448>>}

\* "", "01", "01 02", "0", "zz"
Pubkeys == {<<>>, <<48, 49>>, <<48, 49, 32, 48, 50>>, <<48>>, <<122, 122>>}

FullArgvs == {<<ProgName, p, k, i>> : p \in Prefixes, k \in Pubkeys, i \in ProgramIds}

Argvs ==
    FullArgvs
    \cup {SubSeq(a, 1, n) : a \in FullArgvs, n \in 1..3}
    \cup {Append(a, <<120>>) : a \in {b \in FullArgvs : b[2] = <<>>}}

----------------------------------------------------------------------------
(* main *)

\* "as" of MissingArgs: the test is off by one.
MissingArgs_5(av) == Len(av) < 5

MissingArgs(av) == Len(av) < 4

Line(fmt, text, msg, pos) == [fmt |-> fmt, text |-> text, msg |-> msg, pos |-> pos]

UsageLine == Line("Usage: python derive_pda.py <seed_prefix> <pubkey> <program_id>", <<>>, "", 0)

AddressLine(a) == Line("{address}", a, "", 0)

ErrorLine(o) == Line("Error: {e}", <<>>, o.msg, o.pos)

\* main up to the call at line 29.
MainStart(av) ==
    /\ pc = "idle"
    /\ argv' = av
    /\ IF MissingArgs(av)
       THEN /\ stdout' = Append(stdout, UsageLine)
            /\ pc' = "exit"
            /\ UNCHANGED <<caller, seeds, program_id, nonce, seed_bytes, hashed, h,
                           tried, outcome, exc, decodes>>
       ELSE LET enc == Utf8Encode(av[2])
                pk == FromHex(av[3])
            IN  IF ~enc.ok
                THEN /\ exc' = "UnicodeEncodeError"
                     /\ pc' = "exit"
                     /\ UNCHANGED <<caller, seeds, program_id, nonce, seed_bytes, hashed,
                                    h, tried, outcome, stdout, decodes>>
                ELSE /\ decodes' = decodes + 1
                     /\ IF ~pk.ok
                        THEN /\ exc' = "ValueError"
                             /\ pc' = "exit"
                             /\ UNCHANGED <<caller, seeds, program_id, nonce, seed_bytes,
                                            hashed, h, tried, outcome, stdout>>
                        ELSE /\ caller' = "main"
                             /\ Enter(<<enc.bytes, pk.bytes>>, av[4])
                             /\ UNCHANGED <<stdout, exc>>
    /\ UNCHANGED prev

\* Lines 30-32: the call returned, or raised a ValueError.
MainFinish ==
    /\ caller = "main"
    /\ pc \in {"returned", "raised"}
    /\ stdout' = Append(stdout, IF outcome.kind = "return"
                                THEN AddressLine(outcome.address)
                                ELSE ErrorLine(outcome))
    /\ pc' = "exit"
    /\ UNCHANGED <<argv, caller, seeds, program_id, nonce, seed_bytes, hashed, h,
                   tried, outcome, exc, decodes, prev>>

----------------------------------------------------------------------------
(* Direct calls of find_program_address. *)

Call(sds, pid) ==
    /\ pc = "idle"
    /\ caller' = "lib"
    /\ Enter(sds, pid)
    /\ UNCHANGED <<argv, stdout, exc, decodes, prev>>

\* The nonce of the latest attempt.
LastTried(t) == IF t = <<>> THEN 0 ELSE t[Len(t)][1]

ThisCall == [seeds |-> seeds, program_id |-> program_id, nonce |-> LastTried(tried),
             hashed |-> hashed, outcome |-> outcome]

\* A second call with the same program_id and seeds of the same concatenation
\* (the same list among them).
CallAgain(sds) ==
    /\ caller = "lib"
    /\ pc \in {"returned", "raised"}
    /\ prev = NoCall
    /\ prev' = ThisCall
    /\ Enter(sds, program_id)
    /\ UNCHANGED <<argv, caller, stdout, exc, decodes>>

\* A second call with the nonce the first call tried last as one more seed.
CallAliased ==
    /\ caller = "lib"
    /\ pc \in {"returned", "raised"}
    /\ prev = NoCall
    /\ LastTried(tried) # 0
    /\ prev' = ThisCall
    /\ Enter(Append(seeds, <<LastTried(tried)>>), program_id)
    /\ UNCHANGED <<argv, caller, stdout, exc, decodes>>

Init ==
    /\ argv = <<>>
    /\ caller = "none"
    /\ pc = "idle"
    /\ seeds = <<>>
    /\ program_id = <<>>
    /\ nonce = 0
    /\ seed_bytes = <<>>
    /\ hashed = <<>>
    /\ h = <<>>
    /\ tried = <<>>
    /\ outcome = NoOutcome
    /\ stdout = <<>>
    /\ exc = "none"
    /\ decodes = 0
    /\ prev = NoCall

Next ==
    \/ \E av \in Argvs : MainStart(av)
    \/ MainFinish
    \/ \E sds \in SeedLists, pid \in ProgramIds : Call(sds, pid)
    \/ \E sds \in Resplits(Concat(seeds)) : CallAgain(sds)
    \/ CallAliased
    \/ Attempt
    \/ Exhaust

Spec == Init /\ [][Next]_vars

----------------------------------------------------------------------------
(* Properties. *)

RECURSIVE TotalLen(_)
TotalLen(sds) == IF sds = <<>> THEN 0 ELSE Len(sds[1]) + TotalLen(Tail(sds))

\* The bytes the attempt with nonce n of a call with seeds sds and program id
\* bytes pidb has to hash, and their number.
Preimage(sds, n, pidb) == Concat(sds) \o (IF n = 0 THEN <<>> ELSE <<n>>) \o pidb

PreimageLen(sds, n, pidb) == TotalLen(sds) + (IF n = 0 THEN 0 ELSE 1) + Len(pidb)

\* The latest attempt was the first one whose digest ends in a zero byte.
Rejected(t) == \A i \in 1..Len(t) : t[i][2] # 0

\* C1: whenever find_program_address returned (address, nonce), the address is
\* the hexadecimal text of the whole 32-byte digest of the bytes hashed in the
\* attempt with that nonce, and the digest's last byte (index 31) is 0.
C1_ValidAddress ==
    outcome.kind = "return" =>
        LET a == FromHex(outcome.address)
        IN  /\ Len(outcome.address) = 64
            /\ a.ok
            /\ Len(a.bytes) = 32
            /\ a.bytes[32] = 0
            /\ \A k \in 1..32 : a.bytes[k] = sha256(hashed)[k]
            /\ LastTried(tried) = outcome.nonce
            /\ hashed = Preimage(seeds, outcome.nonce, FromHex(program_id).bytes)

C1_Witness == pc = "returned" /\ outcome.nonce > 0 /\ Len(seeds) = 2

\* C2: the nonces are hashed in ascending order from 0, each once, the search
\* goes on only past a rejected nonce, and it stops at the first success: the
\* returned nonce is the smallest one in 0..254 whose digest ends in 0, and no
\* larger nonce was hashed.
C2_FirstSuccess ==
    /\ \A i \in 1..Len(tried) : tried[i][1] = i - 1
    /\ Rejected(SubSeq(tried, 1, Len(tried) - 1))
    /\ outcome.kind = "return" =>
           /\ outcome.nonce \in 0..254
           /\ Len(tried) = outcome.nonce + 1
           /\ tried[Len(tried)] = <<outcome.nonce, 0>>

C2_Witness == outcome.kind = "return" /\ outcome.nonce >= 2 /\ Len(tried) = outcome.nonce + 1

\* C3: when the program id decodes and no nonce in 0..254 gives a digest that
\* ends in 0, the call raises "Unable to find a valid program address" after
\* exactly 255 hashes, of the nonces 0..254, each once; nonce 255 is never
\* hashed and no address is returned.
C3_Exhaustion ==
    /\ Len(tried) <= 255
    /\ \A i \in 1..Len(tried) : tried[i][1] \in 0..254
    /\ (outcome.kind = "raise" /\ outcome.msg = ExhaustedMsg) =>
           /\ Len(tried) = 255
           /\ \A n \in 0..254 : tried[n + 1][1] = n
           /\ Rejected(tried)
           /\ outcome.address = <<>>
    /\ (outcome.kind # "none" /\ tried # <<>> /\ Rejected(tried)) =>
           /\ outcome = Raised(ExhaustedMsg, 0)
           /\ Len(tried) = 255

C3_Witness == pc = "raised" /\ outcome.msg = ExhaustedMsg /\ Len(tried) = 255

\* C4: in every attempt the hashed bytes are the seeds in the given order, then
\* no byte for nonce 0 and the one byte nonce for a nonce in 1..254, then the
\* program id bytes; so the bytes of attempt 0 are one fewer than those of any
\* later attempt, and are not those of a scheme that always adds the nonce byte.
C4_Preimage ==
    tried # <<>> =>
        LET n == LastTried(tried)
            pidb == FromHex(program_id).bytes
        IN  /\ hashed = Preimage(seeds, n, pidb)
            /\ Len(hashed) = PreimageLen(seeds, n, pidb)
            /\ n = 0 => hashed # Concat(seeds) \o <<0>> \o pidb
            /\ n # 0 => /\ Len(hashed) = PreimageLen(seeds, 0, pidb) + 1
                        /\ hashed[TotalLen(seeds) + 1] = n
            /\ seed_bytes = SubSeq(hashed, 1, Len(hashed) - Len(pidb))

C4_Witness == Len(tried) >= 2 /\ Len(seeds) = 2 /\ seeds[1] # <<>> /\ seeds[2] # <<>>

\* C5: for a command line of at least 3 arguments, a malformed pubkey, a
\* malformed program id and an exhausted search each end in main printing one
\* "Error: ..." line and returning, no exception leaving main.
C5_ErrorsPrinted ==
    (/\ pc = "exit"
     /\ Len(argv) >= 4
     /\ Utf8Encode(argv[2]).ok
     /\ \/ ~FromHex(argv[3]).ok
        \/ ~FromHex(argv[4]).ok
        \/ outcome = Raised(ExhaustedMsg, 0))
    => /\ exc = "none"
       /\ Len(stdout) = 1
       /\ stdout[1].fmt = "Error: {e}"

\* C6: the program id hashed in every attempt is 32 bytes, and the hashed
\* bytes are the seed bytes, the nonce byte if any, and 32 more.
C6_ProgramId32 ==
    tried # <<>> =>
        /\ Len(FromHex(program_id).bytes) = 32
        /\ Len(hashed) = TotalLen(seeds) + (IF LastTried(tried) = 0 THEN 0 ELSE 1) + 32

\* C7: a second call with the same seeds and the same program id ends as the
\* first did: the same (address, nonce), or the same error.
C7_Determinism ==
    (/\ prev # NoCall
     /\ seeds = prev.seeds
     /\ program_id = prev.program_id
     /\ outcome.kind # "none")
    => outcome = prev.outcome

C7_Witness ==
    /\ prev # NoCall
    /\ seeds = prev.seeds
    /\ program_id = prev.program_id
    /\ outcome.kind = "return"
    /\ outcome.nonce > 0

\* C8: with fewer than 3 arguments main prints the usage line and returns,
\* having decoded no hexadecimal text, called nothing and hashed nothing; with
\* 3 arguments or more the usage line is never printed.
C8_Usage ==
    /\ (pc = "exit" /\ Len(argv) < 4) =>
           /\ stdout = <<UsageLine>>
           /\ exc = "none"
           /\ decodes = 0
           /\ caller = "none"
           /\ tried = <<>>
           /\ outcome = NoOutcome
    /\ Len(argv) >= 4 => \A i \in 1..Len(stdout) : stdout[i] # UsageLine

C8_Witness == pc = "exit" /\ Len(argv) = 3 /\ stdout = <<UsageLine>>

\* C9: two calls with the same program id and seed lists of the same
\* concatenation end alike, wherever the boundaries between the seeds are.
C9_Boundaries ==
    (/\ prev # NoCall
     /\ Concat(seeds) = Concat(prev.seeds)
     /\ program_id = prev.program_id
     /\ outcome.kind # "none")
    => outcome = prev.outcome

C9_Witness ==
    /\ prev # NoCall
    /\ seeds # prev.seeds
    /\ Len(seeds) = Len(prev.seeds)
    /\ Concat(seeds) = Concat(prev.seeds)
    /\ outcome.kind = "return"
    /\ outcome.nonce > 0

\* C10: with n >= 1 the nonce of an attempt of a call (S, P), attempt 0 of the
\* call (S ++ [<<n>>], P) hashes the same bytes; so if the first call returned
\* nonce n, the second returns nonce 0 and the same address.
C10_Aliasing ==
    (/\ prev # NoCall
     /\ prev.nonce >= 1
     /\ seeds = Append(prev.seeds, <<prev.nonce>>)
     /\ program_id = prev.program_id
     /\ tried # <<>>)
    => /\ tried[1][1] = 0
       /\ Len(tried) = 1 => hashed = prev.hashed
       /\ (prev.outcome.kind = "return" /\ outcome.kind # "none") =>
              outcome = Returned(prev.outcome.address, 0)

C10_Witness ==
    /\ prev # NoCall
    /\ prev.outcome.kind = "return"
    /\ prev.nonce >= 1
    /\ seeds = Append(prev.seeds, <<prev.nonce>>)
    /\ outcome.kind = "return"

====
